---- MODULE Spec2Model ----
(***************************************************************************)
(* Model of num_literal_traits: identify_literal, parse_literal and        *)
(* parse_literal_fallback (src/src/parse_literal.rs), instantiated for an  *)
(* unsigned primitive integer target type of Width bits.                   *)
(*                                                                         *)
(* A text (Rust &str) is a sequence of chars, each char its Unicode code   *)
(* point; byte-level operations (len, as_bytes) go through the UTF-8       *)
(* encoding.                                                               *)
(***************************************************************************)
EXTENDS Integers, Sequences, FiniteSets, TLC

VARIABLES text, pc, result, num_part, radix, fallback, fb_result, prev

vars == <<text, pc, result, num_part, radix, fallback, fb_result, prev>>

\* ------------------------------------------------------------------ bounds
Width   == 8   \* bits of the target unsigned integer type T
MaxLen  == 3   \* length of the freely enumerated texts
MaxBody == 3   \* length of the digit bodies put behind each prefix
MaxPad  == 1   \* length of the whitespace put around a text

MaxVal == 2^Width - 1

\* Code points used below.
CP == [zero |-> 48, one |-> 49, two |-> 50, three |-> 51, five |-> 53,
       seven |-> 55, eight |-> 56, nine |-> 57,
       plus |-> 43, minus |-> 45, quote |-> 39, underscore |-> 95,
       space |-> 32, tab |-> 9,
       b |-> 98, B |-> 66, x |-> 120, X |-> 88, F |-> 70,
       a |-> 97, z |-> 122, A |-> 65, Z |-> 90,
       cjk |-> 20840]

\* ------------------------------------------------------ str (std) helpers
\* Number of bytes of the UTF-8 encoding of a char.
len_utf8(c) ==
    IF c < 128 THEN 1 ELSE IF c < 2048 THEN 2 ELSE IF c < 65536 THEN 3 ELSE 4

\* UTF-8 encoding of a char.
encode_utf8(c) ==
    IF c < 128 THEN <<c>>
    ELSE IF c < 2048 THEN <<192 + (c \div 64), 128 + (c % 64)>>
    ELSE IF c < 65536 THEN
        <<224 + (c \div 4096), 128 + ((c \div 64) % 64), 128 + (c % 64)>>
    ELSE <<240 + (c \div 262144), 128 + ((c \div 4096) % 64),
           128 + ((c \div 64) % 64), 128 + (c % 64)>>

RECURSIVE as_bytes(_)
as_bytes(s) ==
    IF s = <<>> THEN <<>> ELSE encode_utf8(Head(s)) \o as_bytes(Tail(s))

\* str::len: the length in bytes.
len(s) == Len(as_bytes(s))

starts_with(s, pat) ==
    Len(s) >= Len(pat) /\ SubSeq(s, 1, Len(pat)) = pat

ends_with(s, pat) ==
    Len(s) >= Len(pat) /\ SubSeq(s, Len(s) - Len(pat) + 1, Len(s)) = pat

\* char::is_whitespace: the Unicode White_Space property.
is_whitespace(c) ==
    c \in (9..13) \cup {32, 133, 160, 5760} \cup (8192..8202)
          \cup {8232, 8233, 8239, 8287, 12288}

RECURSIVE trim_start(_)
trim_start(s) ==
    IF s # <<>> /\ is_whitespace(Head(s)) THEN trim_start(Tail(s)) ELSE s

RECURSIVE trim_end(_)
trim_end(s) ==
    IF s # <<>> /\ is_whitespace(s[Len(s)])
    THEN trim_end(SubSeq(s, 1, Len(s) - 1)) ELSE s

trim(s) == trim_end(trim_start(s))

\* str::to_lowercase; every cased char of the texts considered is ASCII.
to_lowercase(s) ==
    [i \in 1..Len(s) |-> IF s[i] \in CP.A..CP.Z THEN s[i] + 32 ELSE s[i]]

\* &s[n..]; used only behind a prefix of n one-byte chars.
slice_from(s, n) == SubSeq(s, n + 1, Len(s))

\* s.replace(pat, "") for a one-char pattern.
replace(s, c) == SelectSeq(s, LAMBDA ch : ch # c)

\* u8::to_string, the base-10 representation.
RECURSIVE to_string(_)
to_string(n) ==
    IF n < 10 THEN <<CP.zero + n>>
    ELSE Append(to_string(n \div 10), CP.zero + (n % 10))

\* char::to_digit: the digit value, or -1 when c is no digit of the radix.
to_digit(c, rdx) ==
    LET v == IF c \in CP.zero..CP.nine THEN c - CP.zero
             ELSE IF c \in CP.a..CP.z THEN c - CP.a + 10
             ELSE IF c \in CP.A..CP.Z THEN c - CP.A + 10
             ELSE -1
    IN IF v >= 0 /\ v < rdx THEN v ELSE -1

Ok(v)  == [tag |-> "Ok", val |-> v]
Err(k) == [tag |-> "Err", kind |-> k]

\* The digit loop of from_str_radix with checked arithmetic.
RECURSIVE accumulate(_, _, _)
accumulate(digits, rdx, acc) ==
    IF digits = <<>> THEN Ok(acc)
    ELSE LET d == to_digit(Head(digits), rdx)
         IN IF d < 0 THEN Err("InvalidDigit")
            ELSE IF acc * rdx > MaxVal THEN Err("PosOverflow")
            ELSE IF acc * rdx + d > MaxVal THEN Err("PosOverflow")
            ELSE accumulate(Tail(digits), rdx, acc * rdx + d)

\* <T as Num>::from_str_radix for an unsigned primitive integer T.
from_str_radix(s, rdx) ==
    IF s = <<>> THEN Err("Empty")
    ELSE IF s = <<CP.plus>> \/ s = <<CP.minus>> THEN Err("InvalidDigit")
    ELSE IF Head(s) = CP.plus THEN accumulate(Tail(s), rdx, 0)
    ELSE accumulate(s, rdx, 0)

\* -------------------------------------------------------- parse_literal.rs
\* identify_literal matching the prefix letters case-sensitively.
identify_literal_case_sensitive(t0) ==
    LET t == trim(t0)
    IN IF starts_with(t, <<CP.zero, CP.b>>)
         THEN [num_part |-> slice_from(t, 2), radix |-> 2]
       ELSE IF starts_with(t, <<CP.zero, CP.x>>)
         THEN [num_part |-> slice_from(t, 2), radix |-> 16]
       ELSE IF len(t) > 1 /\ starts_with(t, <<CP.zero>>)
         THEN [num_part |-> slice_from(t, 1), radix |-> 8]
       ELSE [num_part |-> t, radix |-> 10]

\* identify_literal without the length guard of the octal branch.
identify_literal_no_len_guard(t0) ==
    LET t == trim(t0)
    IN IF starts_with(to_lowercase(t), <<CP.zero, CP.b>>)
         THEN [num_part |-> slice_from(t, 2), radix |-> 2]
       ELSE IF starts_with(to_lowercase(t), <<CP.zero, CP.x>>)
         THEN [num_part |-> slice_from(t, 2), radix |-> 16]
       ELSE IF starts_with(to_lowercase(t), <<CP.zero>>)
         THEN [num_part |-> slice_from(t, 1), radix |-> 8]
       ELSE [num_part |-> t, radix |-> 10]

\* identify_literal with the length guard off by one.
identify_literal_len_off_by_one(t0) ==
    LET t == trim(t0)
    IN IF starts_with(to_lowercase(t), <<CP.zero, CP.b>>)
         THEN [num_part |-> slice_from(t, 2), radix |-> 2]
       ELSE IF starts_with(to_lowercase(t), <<CP.zero, CP.x>>)
         THEN [num_part |-> slice_from(t, 2), radix |-> 16]
       ELSE IF len(t) > 0 /\ starts_with(to_lowercase(t), <<CP.zero>>)
         THEN [num_part |-> slice_from(t, 1), radix |-> 8]
       ELSE [num_part |-> t, radix |-> 10]

\* identify_literal that does not trim the text.
identify_literal_no_trim(t) ==
    IF starts_with(to_lowercase(t), <<CP.zero, CP.b>>)
      THEN [num_part |-> slice_from(t, 2), radix |-> 2]
    ELSE IF starts_with(to_lowercase(t), <<CP.zero, CP.x>>)
      THEN [num_part |-> slice_from(t, 2), radix |-> 16]
    ELSE IF len(t) > 1 /\ starts_with(to_lowercase(t), <<CP.zero>>)
      THEN [num_part |-> slice_from(t, 1), radix |-> 8]
    ELSE [num_part |-> t, radix |-> 10]

identify_literal(t0) ==
    LET t == trim(t0)
    IN IF starts_with(to_lowercase(t), <<CP.zero, CP.b>>)
         THEN [num_part |-> slice_from(t, 2), radix |-> 2]
       ELSE IF starts_with(to_lowercase(t), <<CP.zero, CP.x>>)
         THEN [num_part |-> slice_from(t, 2), radix |-> 16]
       ELSE IF len(t) > 1 /\ starts_with(to_lowercase(t), <<CP.zero>>)
         THEN [num_part |-> slice_from(t, 1), radix |-> 8]
       ELSE [num_part |-> t, radix |-> 10]

\* The test that selects the character-literal branch.
is_char_literal(t) ==
    len(t) = 3 /\ starts_with(t, <<CP.quote>>) /\ ends_with(t, <<CP.quote>>)

\* parse_literal that parses the quoted char itself instead of its code.
parse_literal_char_as_digit(t) ==
    IF is_char_literal(t)
    THEN from_str_radix(<<as_bytes(t)[2]>>, 10)
    ELSE LET id == identify_literal(t)
         IN from_str_radix(replace(id.num_part, CP.underscore), id.radix)

\* parse_literal that counts the chars of the text instead of its bytes.
parse_literal_char_count(t) ==
    IF Len(t) = 3 /\ starts_with(t, <<CP.quote>>) /\ ends_with(t, <<CP.quote>>)
    THEN LET chr == as_bytes(t)[2]
         IN from_str_radix(to_string(chr), 10)
    ELSE LET id == identify_literal(t)
         IN from_str_radix(replace(id.num_part, CP.underscore), id.radix)

\* parse_literal that keeps only the low Width bits of the parsed number.
parse_literal_wrapping(t) ==
    IF is_char_literal(t)
    THEN LET chr == as_bytes(t)[2]
         IN from_str_radix(to_string(chr), 10)
    ELSE LET id == identify_literal(t)
             s == replace(id.num_part, CP.underscore)
             wrap[i \in 0..Len(s)] ==
                 IF i = 0 THEN 0
                 ELSE (wrap[i - 1] * id.radix + to_digit(s[i], id.radix))
                          % (MaxVal + 1)
         IN IF s # <<>> /\ \A i \in 1..Len(s) : to_digit(s[i], id.radix) >= 0
            THEN Ok(wrap[Len(s)])
            ELSE from_str_radix(s, id.radix)

\* parse_literal that reads an empty body as zero.
parse_literal_empty_is_zero(t) ==
    IF is_char_literal(t)
    THEN LET chr == as_bytes(t)[2]
         IN from_str_radix(to_string(chr), 10)
    ELSE LET id == identify_literal(t)
             s == replace(id.num_part, CP.underscore)
         IN IF s = <<>> THEN Ok(0) ELSE from_str_radix(s, id.radix)

parse_literal(t) ==
    IF is_char_literal(t)
    THEN LET chr == as_bytes(t)[2]
         IN from_str_radix(to_string(chr), 10)
    ELSE LET id == identify_literal(t)
         IN from_str_radix(replace(id.num_part, CP.underscore), id.radix)

unwrap_or(r, dflt) == IF r.tag = "Ok" THEN r.val ELSE dflt

\* parse_literal_fallback without the character-literal branch and the
\* length guard.
parse_literal_fallback_stale(t, fb) ==
    LET id == identify_literal_no_len_guard(t)
    IN unwrap_or(from_str_radix(replace(id.num_part, CP.underscore),
                                id.radix), fb)

parse_literal_fallback(t, fb) ==
    IF is_char_literal(t)
    THEN LET chr == as_bytes(t)[2]
         IN unwrap_or(from_str_radix(to_string(chr), 10), fb)
    ELSE LET id == identify_literal(t)
         IN unwrap_or(from_str_radix(replace(id.num_part, CP.underscore),
                                     id.radix), fb)

\* ------------------------------------------------------------------ inputs
AllTexts(A, n) == UNION {[1..k -> A] : k \in 0..n}

Alphabet ==
    {CP.zero, CP.one, CP.eight, CP.b, CP.x, CP.F, CP.underscore, CP.quote,
     CP.space, CP.plus, CP.cjk}

DigitAlphabet ==
    {CP.zero, CP.one, CP.two, CP.three, CP.five, CP.seven, CP.eight, CP.F,
     CP.underscore}

Prefixes ==
    {<<>>, <<CP.zero>>, <<CP.zero, CP.b>>, <<CP.zero, CP.B>>,
     <<CP.zero, CP.x>>, <<CP.zero, CP.X>>}

WhiteSpace == {CP.space, CP.tab}

FreeTexts == AllTexts(Alphabet, MaxLen)

PrefixedTexts ==
    {p \o d : p \in Prefixes, d \in AllTexts(DigitAlphabet, MaxBody)}

BinaryTexts ==
    {p \o d : p \in {<<CP.zero, CP.b>>, <<CP.zero, CP.B>>},
              d \in AllTexts({CP.zero, CP.one}, Width + 1)}

PaddedTexts ==
    {w1 \o t \o w2 : w1 \in AllTexts(WhiteSpace, MaxPad),
                     t \in FreeTexts,
                     w2 \in AllTexts(WhiteSpace, MaxPad)}

Texts == FreeTexts \cup PrefixedTexts \cup BinaryTexts \cup PaddedTexts

Fallbacks == {0, 202}

None == [tag |-> "None"]

\* ----------------------------------------------------------------- actions
Init ==
    /\ text \in Texts
    /\ pc = "init"
    /\ result = None
    /\ num_part = <<>>
    /\ radix = 0
    /\ fallback = 0
    /\ fb_result = None
    /\ prev = None

\* A call T::parse_literal(text); num_part and radix are its locals.
ParseLiteral ==
    /\ pc = "init"
    /\ result' = parse_literal(text)
    /\ IF is_char_literal(text)
       THEN UNCHANGED <<num_part, radix>>
       ELSE /\ num_part' = identify_literal(text).num_part
            /\ radix' = identify_literal(text).radix
    /\ pc' = "strict"
    /\ UNCHANGED <<text, fallback, fb_result, prev>>

\* A call T::parse_literal_fallback(text, fb) on the same text.
ParseLiteralFallback ==
    /\ pc = "strict"
    /\ \E fb \in Fallbacks :
        /\ fallback' = fb
        /\ fb_result' = Ok(parse_literal_fallback(text, fb))
    /\ pc' = "fallback"
    /\ UNCHANGED <<text, result, num_part, radix, prev>>

\* Re-parse the base-10 string of a value parse_literal returned.
Reparse ==
    /\ pc = "strict"
    /\ result.tag = "Ok"
    /\ prev' = result
    /\ text' = to_string(result.val)
    /\ result' = parse_literal(text')
    /\ IF is_char_literal(text')
       THEN UNCHANGED <<num_part, radix>>
       ELSE /\ num_part' = identify_literal(text').num_part
            /\ radix' = identify_literal(text').radix
    /\ pc' = "reparsed"
    /\ UNCHANGED <<fallback, fb_result>>

Next == ParseLiteral \/ ParseLiteralFallback \/ Reparse

Spec == Init /\ [][Next]_vars

TypeOK ==
    /\ pc \in {"init", "strict", "fallback", "reparsed"}
    /\ result.tag \in {"None", "Ok", "Err"}
    /\ radix \in {0, 2, 8, 10, 16}

\* ------------------------------------------- vocabulary of the properties
\* These definitions state what a literal is and what it denotes; they do
\* not use the operators that model the code.
Called == pc \in {"strict", "fallback"}

Classified == pc # "init" /\ radix # 0

Drop(t, n) == SubSeq(t, n + 1, Len(t))

NonBlank(t) == {i \in 1..Len(t) : t[i] \notin WhiteSpace}

\* The text without its surrounding whitespace.
Core(t) ==
    IF NonBlank(t) = {} THEN <<>>
    ELSE LET lo == CHOOSE i \in NonBlank(t) : \A j \in NonBlank(t) : i <= j
             hi == CHOOSE i \in NonBlank(t) : \A j \in NonBlank(t) : j <= i
         IN SubSeq(t, lo, hi)

HasPrefix(t, second) == Len(t) >= 2 /\ t[1] = CP.zero /\ t[2] \in second

LitRadix(t) ==
    IF HasPrefix(t, {CP.b, CP.B}) THEN 2
    ELSE IF HasPrefix(t, {CP.x, CP.X}) THEN 16
    ELSE IF Len(t) > 1 /\ t[1] = CP.zero THEN 8
    ELSE 10

LitPrefixLen(r) == IF r \in {2, 16} THEN 2 ELSE IF r = 8 THEN 1 ELSE 0

LitBody(t) == Drop(t, LitPrefixLen(LitRadix(t)))

StripUs(t) == SelectSeq(t, LAMBDA ch : ch # CP.underscore)

DigitVal(c) ==
    IF c \in CP.zero..CP.nine THEN c - CP.zero
    ELSE IF c \in CP.a..CP.z THEN c - CP.a + 10
    ELSE IF c \in CP.A..CP.Z THEN c - CP.A + 10
    ELSE 99

IsDigitOf(c, r) == DigitVal(c) < r

\* digits_with_seps := digit ("_"? digit)*
DigitsWithSeps(b, r) ==
    /\ b # <<>>
    /\ \A i \in 1..Len(b) : b[i] = CP.underscore \/ IsDigitOf(b[i], r)
    /\ b[1] # CP.underscore /\ b[Len(b)] # CP.underscore
    /\ \A i \in 1..(Len(b) - 1) :
          ~(b[i] = CP.underscore /\ b[i + 1] = CP.underscore)

\* A binary, octal, decimal or hexadecimal literal.
IsNumericLiteral(t) == DigitsWithSeps(LitBody(t), LitRadix(t))

\* A character literal: quote, one single-byte char, quote.
IsCharLiteral(t) ==
    Len(t) = 3 /\ t[1] = CP.quote /\ t[3] = CP.quote /\ t[2] < 128

\* The number a string of digits denotes at radix r (unbounded).
RECURSIVE Magnitude(_, _)
Magnitude(b, r) ==
    IF b = <<>> THEN 0
    ELSE Magnitude(SubSeq(b, 1, Len(b) - 1), r) * r + DigitVal(b[Len(b)])

LitValue(t) == Magnitude(StripUs(LitBody(t)), LitRadix(t))

\* A decimal digit string: "0" or digits without a leading zero.
ValidDecimal(d) ==
    /\ d # <<>>
    /\ \A i \in 1..Len(d) : d[i] \in CP.zero..CP.nine
    /\ (d = <<CP.zero>> \/ d[1] # CP.zero)

\* ------------------------------------------------------------------ claims

\* C1: identify_literal classifies the trimmed text by case-insensitive
\* prefix, first match wins: 0b/0B gives radix 2 and the text after the two
\* prefix characters, else 0x/0X gives radix 16 likewise, else a leading 0
\* with trimmed length > 1 gives radix 8 and the text after the 0, else
\* radix 10 and the whole trimmed text; the radix is in {2, 8, 10, 16} and
\* the body is the trimmed text without the consumed prefix.
C1_PrefixDispatch ==
    Classified =>
        LET t == Core(text)
        IN /\ radix \in {2, 8, 10, 16}
           /\ radix = LitRadix(t)
           /\ num_part = Drop(t, LitPrefixLen(radix))
           /\ Len(num_part) + LitPrefixLen(radix) = Len(t)

C1_Witness ==
    /\ pc = "strict"
    /\ text = <<CP.zero, CP.X, CP.one, CP.F>>
    /\ radix = 16
    /\ num_part = <<CP.one, CP.F>>

\* C2: parse_literal("0") returns Ok(0), classified as radix 10 with body
\* "0", not as an octal prefix with an empty body.
C2_BareZero ==
    (pc # "init" /\ text = <<CP.zero>>) =>
        /\ result = Ok(0)
        /\ radix = 10
        /\ num_part = <<CP.zero>>

C2_Witness == pc = "strict" /\ text = <<CP.zero>> /\ result = Ok(0)

\* C3: for every valid decimal digit string d (including "0") whose value
\* fits the target type and every text obtained from d by inserting
\* underscores at any positions, parse_literal returns Ok(value of d).
C3_UnderscoresAnywhere ==
    (/\ pc = "strict"
     /\ ValidDecimal(StripUs(text))
     /\ Magnitude(StripUs(text), 10) <= MaxVal) =>
        result = Ok(Magnitude(StripUs(text), 10))

\* C4: parse_literal of quote-c-quote, c a single-byte char whose code point
\* fits the target type, returns Ok(code point of c); c is not trimmed,
\* stripped or classified.
C4_CharLiteral ==
    (pc = "strict" /\ IsCharLiteral(text) /\ text[2] <= MaxVal) =>
        result = Ok(text[2])

C4_Witness ==
    /\ pc = "strict"
    /\ text = <<CP.quote, CP.zero, CP.quote>>
    /\ result = Ok(CP.zero)

\* C5: a text that contains a single quote but is not a 3-byte text that
\* starts and ends with a single quote makes parse_literal return Err and
\* parse_literal_fallback return the fallback.
C5_MalformedCharLiteral ==
    ((\E i \in 1..Len(text) : text[i] = CP.quote) /\ ~IsCharLiteral(text)) =>
        /\ Called => result.tag = "Err"
        /\ pc = "fallback" => fb_result = Ok(fallback)

C5_Witness ==
    /\ pc = "fallback"
    /\ text = <<CP.quote, CP.cjk, CP.quote>>
    /\ result.tag = "Err"
    /\ fallback = 202
    /\ fb_result = Ok(202)

\* C6: parse_literal_fallback(t, f) is v when parse_literal(t) is Ok(v) and
\* f when parse_literal(t) is Err.
C6_FallbackAgrees ==
    pc = "fallback" =>
        fb_result = Ok(IF result.tag = "Ok" THEN result.val ELSE fallback)

C6_Witness ==
    /\ pc = "fallback"
    /\ text = <<CP.quote, CP.F, CP.quote>>
    /\ result = Ok(CP.F)
    /\ fallback = 202
    /\ fb_result = Ok(CP.F)

\* C7: a binary, octal, decimal or hexadecimal literal whose magnitude is
\* above the maximum of the target type makes parse_literal return Err, and
\* the literal that denotes exactly the maximum returns Ok(maximum).
C7_OverflowDetected ==
    (pc = "strict" /\ IsNumericLiteral(text)) =>
        /\ LitValue(text) > MaxVal => result.tag = "Err"
        /\ LitValue(text) = MaxVal => result = Ok(MaxVal)

C7_Witness ==
    /\ pc = "strict"
    /\ IsNumericLiteral(text)
    /\ LitRadix(text) = 2
    /\ LitValue(text) = MaxVal + 1
    /\ result = Err("PosOverflow")

\* C8: when parse_literal(t) is Ok(v), parse_literal of the base-10 string
\* of v is Ok(v) again, v = 0 included.
C8_RoundTrip == pc = "reparsed" => result = prev

C8_Witness ==
    /\ pc = "reparsed"
    /\ text = <<CP.zero>>
    /\ prev = Ok(0)
    /\ result = Ok(0)

\* C9 as stated: parse_literal returns Err whenever the cleaned body is
\* empty and whenever it contains a character that is not a digit of the
\* selected radix.
C9_AnyNonDigitFails ==
    (pc = "strict" /\ Classified) =>
        LET body == StripUs(num_part)
        IN (body = <<>> \/ \E i \in 1..Len(body) : ~IsDigitOf(body[i], radix))
              => result.tag = "Err"

\* C9 amended: parse_literal returns Err whenever the cleaned body, without
\* the one leading plus sign the radix parser accepts, is empty or contains
\* a character that is not a digit of the selected radix.
C9_EmptyOrNonDigitFails ==
    (pc = "strict" /\ Classified) =>
        LET body == StripUs(num_part)
            digits == IF body # <<>> /\ body[1] = CP.plus
                      THEN Drop(body, 1) ELSE body
        IN (digits = <<>>
              \/ \E i \in 1..Len(digits) : ~IsDigitOf(digits[i], radix))
              => result.tag = "Err"

C9_Witness ==
    /\ pc = "strict"
    /\ text = <<CP.zero, CP.eight>>
    /\ radix = 8
    /\ result = Err("InvalidDigit")

\* What a numeric literal evaluates to in the target type.
Expected(t) ==
    IF LitValue(t) <= MaxVal THEN Ok(LitValue(t)) ELSE Err("PosOverflow")

\* C10 as stated: for every binary, octal, decimal, hexadecimal or
\* character literal t, parse_literal of t inside whitespace equals
\* parse_literal(t).
C10_PaddingIrrelevant ==
    pc = "strict" =>
        LET t == Core(text)
        IN /\ IsNumericLiteral(t) => result = Expected(t)
           /\ (IsCharLiteral(t) /\ t[2] <= MaxVal) => result = Ok(t[2])

\* C10 amended: for every binary, octal, decimal or hexadecimal literal t,
\* parse_literal of t inside whitespace equals parse_literal(t); a
\* character literal inside whitespace returns Err.
C10_PaddingIrrelevantNumeric ==
    pc = "strict" =>
        LET t == Core(text)
        IN /\ IsNumericLiteral(t) => result = Expected(t)
           /\ (IsCharLiteral(t) /\ text # t) => result.tag = "Err"

C10_Witness ==
    /\ pc = "strict"
    /\ text = <<CP.space, CP.zero, CP.x, CP.one, CP.tab>>
    /\ result = Ok(1)
====
